---- MODULE Spec2Model ----
(***************************************************************************)
(* The CGPA routes of backend/routes/cgpa.js over the CGPA collection of   *)
(* backend/models/CGPA.js, for one authenticated user.                     *)
(*                                                                         *)
(* JavaScript numbers are modelled as exact rationals <<n, d>> (d > 0, in  *)
(* lowest terms); `undefined` is the empty tuple.  Credits arrive as JSON  *)
(* numbers or are absent.  Date fields (calculatedAt, lastUpdated) are     *)
(* written only next to the fields modelled here and are read by no        *)
(* route; they are left out.                                               *)
(***************************************************************************)
EXTENDS Integers, Sequences, FiniteSets, TLC

VARIABLES docs, res, fnIn, fnOut, version, calls, origin

vars == <<docs, res, fnIn, fnOut, version, calls, origin>>

(***************************************************************************)
(* Bounds                                                                  *)
(***************************************************************************)
MaxSem == 2
MaxLen == 2

(***************************************************************************)
(* JavaScript numbers                                                      *)
(***************************************************************************)
undefined == <<>>

Abs(n) == IF n < 0 THEN -n ELSE n

RECURSIVE GCD(_, _)
GCD(a, b) == IF b = 0 THEN a ELSE GCD(b, a % b)

\* n / d as a number in lowest terms (d > 0)
Rat(n, d) == LET g == GCD(Abs(n), d) IN <<n \div g, d \div g>>

Num(n) == <<n, 1>>

Zero == Num(0)

\* NaN: equal to no number
NaN == <<0, 0>>

Add(a, b) == Rat(a[1] * b[2] + b[1] * a[2], a[2] * b[2])

Mul(a, b) == Rat(a[1] * b[1], a[2] * b[2])

\* a / b for b > 0
Div(a, b) == Rat(a[1] * b[2], a[2] * b[1])

Less(a, b) == a[1] * b[2] < b[1] * a[2]

Leq(a, b) == a[1] * b[2] <= b[1] * a[2]

IsInteger(a) == a # undefined /\ a[2] = 1

\* !x for a number or undefined
NotNum(x) == x = undefined \/ x = Zero

\* !x for a string or undefined ("" stands for both)
NotStr(x) == x = ""

(***************************************************************************)
(* Grade table                                                             *)
(***************************************************************************)
GRADE_POINTS ==
  [g \in {"O", "A+", "A", "B+", "B", "C", "U", "SC"} |->
     CASE g = "O" -> 10
       [] g = "A+" -> 9
       [] g = "A" -> 8
       [] g = "B+" -> 7
       [] g = "B" -> 6
       [] g = "C" -> 5
       [] g = "U" -> 0
       [] g = "SC" -> 0]

\* the membership test done on the point value: GRADE_POINTS[grade] is truthy
InGradePointsTruthy(grade) ==
  grade \in DOMAIN GRADE_POINTS /\ GRADE_POINTS[grade] # 0

\* subject.grade in GRADE_POINTS
InGradePoints(grade) == grade \in DOMAIN GRADE_POINTS

(***************************************************************************)
(* calculateGPA, calculateCGPA                                             *)
(***************************************************************************)
\* gpaLoop adding the grade point without the credits as its weight
RECURSIVE gpaLoopUnweighted(_, _, _)
gpaLoopUnweighted(subjects, i, acc) ==
  IF i > Len(subjects) THEN acc
  ELSE LET subject == subjects[i] IN
       IF subject.grade # "SC"
       THEN gpaLoopUnweighted(subjects, i + 1,
                              <<Add(acc[1], subject.gradePoint),
                                Add(acc[2], subject.credits)>>)
       ELSE gpaLoopUnweighted(subjects, i + 1, acc)

\* the forEach of calculateGPA: acc = <<totalPoints, totalCredits>>
RECURSIVE gpaLoop(_, _, _)
gpaLoop(subjects, i, acc) ==
  IF i > Len(subjects) THEN acc
  ELSE LET subject == subjects[i] IN
       IF subject.grade # "SC"
       THEN gpaLoop(subjects, i + 1,
                    <<Add(acc[1], Mul(subject.gradePoint, subject.credits)),
                      Add(acc[2], subject.credits)>>)
       ELSE gpaLoop(subjects, i + 1, acc)

\* calculateGPA dividing the points by the number of subjects
calculateGPAPerSubject(subjects) ==
  IF Len(subjects) = 0 THEN Zero
  ELSE LET t == gpaLoop(subjects, 1, <<Zero, Zero>>) IN
       IF Less(Zero, t[2]) THEN Div(t[1], Num(Len(subjects))) ELSE Zero

calculateGPA(subjects) ==
  IF Len(subjects) = 0 THEN Zero
  ELSE LET t == gpaLoop(subjects, 1, <<Zero, Zero>>) IN
       IF Less(Zero, t[2]) THEN Div(t[1], t[2]) ELSE Zero

\* cgpaLoop counting every semester that has credits, whatever its gpa
RECURSIVE cgpaLoopAnyGpa(_, _, _)
cgpaLoopAnyGpa(semesters, i, acc) ==
  IF i > Len(semesters) THEN acc
  ELSE LET semester == semesters[i] IN
       IF Less(Zero, semester.totalCredits)
       THEN cgpaLoopAnyGpa(semesters, i + 1,
                           <<Add(acc[1], Mul(semester.gpa, semester.totalCredits)),
                             Add(acc[2], semester.totalCredits)>>)
       ELSE cgpaLoopAnyGpa(semesters, i + 1, acc)

\* the forEach of calculateCGPA: acc = <<totalPoints, totalCredits>>
RECURSIVE cgpaLoop(_, _, _)
cgpaLoop(semesters, i, acc) ==
  IF i > Len(semesters) THEN acc
  ELSE LET semester == semesters[i] IN
       IF Less(Zero, semester.gpa) /\ Less(Zero, semester.totalCredits)
       THEN cgpaLoop(semesters, i + 1,
                     <<Add(acc[1], Mul(semester.gpa, semester.totalCredits)),
                       Add(acc[2], semester.totalCredits)>>)
       ELSE cgpaLoop(semesters, i + 1, acc)

calculateCGPA(semesters) ==
  IF Len(semesters) = 0 THEN Zero
  ELSE LET t == cgpaLoop(semesters, 1, <<Zero, Zero>>) IN
       IF Less(Zero, t[2]) THEN Div(t[1], t[2]) ELSE Zero

\* subjectsWithPoints.filter(s => s.grade !== 'SC').reduce((sum, s) => sum + s.credits, 0)
RECURSIVE semesterCreditsFrom(_, _)
semesterCreditsFrom(subjects, i) ==
  IF i > Len(subjects) THEN Zero
  ELSE IF subjects[i].grade # "SC"
       THEN Add(subjects[i].credits, semesterCreditsFrom(subjects, i + 1))
       ELSE semesterCreditsFrom(subjects, i + 1)

semesterCredits(subjects) == semesterCreditsFrom(subjects, 1)

\* semesters.reduce((sum, s) => sum + s.totalCredits, 0)
RECURSIVE totalCreditsFrom(_, _)
totalCreditsFrom(semesters, i) ==
  IF i > Len(semesters) THEN Zero
  ELSE Add(semesters[i].totalCredits, totalCreditsFrom(semesters, i + 1))

totalCredits(semesters) == totalCreditsFrom(semesters, 1)

(***************************************************************************)
(* parseInt on the text of a value (a sequence of characters)              *)
(***************************************************************************)
DigitChars == <<"0", "1", "2", "3", "4", "5", "6", "7", "8", "9">>

IsDigit(c) == \E k \in 1..Len(DigitChars) : DigitChars[k] = c

DigitVal(c) == (CHOOSE k \in 1..Len(DigitChars) : DigitChars[k] = c) - 1

\* the digits of text from position i on; acc = <<value, digits seen>>
RECURSIVE parseDigits(_, _, _)
parseDigits(text, i, acc) ==
  IF i > Len(text) \/ ~IsDigit(text[i]) THEN acc
  ELSE parseDigits(text, i + 1, <<10 * acc[1] + DigitVal(text[i]), acc[2] + 1>>)

\* parseInt(text, 10): optional sign, then the leading digits; NaN without a digit
parseInt(text) ==
  LET neg   == Len(text) > 0 /\ text[1] = "-"
      start == IF neg THEN 2 ELSE 1
      d     == parseDigits(text, start, <<0, 0>>)
  IN IF d[2] = 0 THEN NaN
     ELSE Num(IF neg THEN -d[1] ELSE d[1])

isNaN(x) == x = NaN

(***************************************************************************)
(* Subject validation and mapping (POST /calculate, PUT /semester/:n)      *)
(***************************************************************************)
MsgSemester == "Please provide a valid semester number"
MsgSubjects == "Please provide subjects"
MsgNameGrade == "All subjects must have name and grade"
MsgCredits == "All subjects (except SC) must have credits > 0"
MsgGrade == "Invalid grade"
MsgNoData == "CGPA data not found"
MsgNoSemester == "Semester not found"
MsgServer == "Server error"
MsgSaved == "GPA calculated and saved successfully"
MsgUpdated == "Semester updated successfully"
MsgDeleted == "Semester deleted successfully"
MsgNone == ""

\* subjectError with the credits test reduced to subject.credits <= 0, which
\* is false of absent credits
subjectErrorNoMissingCheck(subject) ==
  IF NotStr(subject.name) \/ NotStr(subject.grade) THEN MsgNameGrade
  ELSE IF subject.grade # "SC"
          /\ subject.credits # undefined /\ Leq(subject.credits, Zero)
       THEN MsgCredits
  ELSE IF ~InGradePoints(subject.grade) THEN MsgGrade
  ELSE MsgNone

\* the body of the validation loop for one subject: the message of the first
\* failing check, MsgNone when the subject passes
subjectError(subject) ==
  IF NotStr(subject.name) \/ NotStr(subject.grade) THEN MsgNameGrade
  ELSE IF subject.grade # "SC"
          /\ (NotNum(subject.credits) \/ Leq(subject.credits, Zero))
       THEN MsgCredits
  ELSE IF ~InGradePoints(subject.grade) THEN MsgGrade
  ELSE MsgNone

\* for (const subject of subjects): returns at the first failing subject
RECURSIVE validateFrom(_, _)
validateFrom(subjects, i) ==
  IF i > Len(subjects) THEN MsgNone
  ELSE IF subjectError(subjects[i]) # MsgNone THEN subjectError(subjects[i])
  ELSE validateFrom(subjects, i + 1)

validateSubjects(subjects) == validateFrom(subjects, 1)

\* withPoints keeping a gradePoint that the request carries
withPointsFromCaller(subject) ==
  [name       |-> subject.name,
   credits    |-> IF subject.grade = "SC" THEN Zero
                  ELSE IF NotNum(subject.credits) THEN Zero ELSE subject.credits,
   grade      |-> subject.grade,
   gradePoint |-> IF subject.gradePoint # undefined THEN subject.gradePoint
                  ELSE IF InGradePoints(subject.grade)
                  THEN Num(GRADE_POINTS[subject.grade]) ELSE undefined]

\* one element of subjects.map(...)
withPoints(subject) ==
  [name       |-> subject.name,
   credits    |-> IF subject.grade = "SC" THEN Zero
                  ELSE IF NotNum(subject.credits) THEN Zero ELSE subject.credits,
   grade      |-> subject.grade,
   gradePoint |-> IF InGradePoints(subject.grade)
                  THEN Num(GRADE_POINTS[subject.grade]) ELSE undefined]

subjectsWithPoints(subjects) == [i \in 1..Len(subjects) |-> withPoints(subjects[i])]

(***************************************************************************)
(* The schema (models/CGPA.js)                                             *)
(***************************************************************************)
\* String.prototype.trim on the names in use
Trim(name) ==
  CASE name = " " -> ""
    [] name = " Lab " -> "Lab"
    [] OTHER -> name

\* the credits validator of subjectSchema
creditsValidator(subject) ==
  IF subject.grade = "SC" THEN subject.credits = Zero
  ELSE Leq(Num(1), subject.credits)

\* validation of one subject document at save (name is trimmed by its setter)
subjectValid(subject) ==
  /\ Trim(subject.name) # ""
  /\ subject.credits # undefined
  /\ creditsValidator(subject)
  /\ subject.grade # ""
  /\ subject.gradePoint # undefined

\* the subject as cast by the schema
castSubject(subject) == [subject EXCEPT !.name = Trim(subject.name)]

castSemester(semester) ==
  [semester EXCEPT !.subjects = [i \in 1..Len(semester.subjects) |->
                                   castSubject(semester.subjects[i])]]

castDoc(doc) ==
  [doc EXCEPT !.semesters = [i \in 1..Len(doc.semesters) |->
                               castSemester(doc.semesters[i])]]

docValid(doc) ==
  \A i \in 1..Len(doc.semesters) :
    \A j \in 1..Len(doc.semesters[i].subjects) :
      subjectValid(doc.semesters[i].subjects[j])

\* new CGPA({ user, semesters: [], overallCGPA: 0, totalCredits: 0 })
newDoc == [semesters |-> <<>>, overallCGPA |-> Zero, totalCredits |-> Zero]

\* CGPA.findOne({ user }): the user's document, or none
findOne(coll) == coll

\* doc.save(): the collection afterwards; unchanged when validation fails
save(coll, doc) == IF docValid(castDoc(doc)) THEN <<castDoc(doc)>> ELSE coll

(***************************************************************************)
(* The route handlers: each maps the collection and the request to the     *)
(* collection afterwards and the response                                  *)
(***************************************************************************)
\* the response: status, message, semesterGPA and overallCGPA; the cgpaData of
\* a 200 response is the document in the collection the handler leaves
Reply(status, message) ==
  [status |-> status, message |-> message, semesterGPA |-> undefined,
   overallCGPA |-> undefined]

\* semesters.findIndex(s => s.semesterNumber === n), 0 for -1
RECURSIVE findIndexFrom(_, _, _)
findIndexFrom(semesters, n, i) ==
  IF i > Len(semesters) THEN 0
  ELSE IF semesters[i].semesterNumber = n THEN i
  ELSE findIndexFrom(semesters, n, i + 1)

findIndex(semesters, n) == findIndexFrom(semesters, n, 1)

\* semester s put into the sorted sequence before the first element that
\* compares greater (a.semesterNumber - b.semesterNumber > 0)
RECURSIVE insertSorted(_, _)
insertSorted(sorted, s) ==
  IF Len(sorted) = 0 THEN <<s>>
  ELSE IF Less(s.semesterNumber, Head(sorted).semesterNumber) THEN <<s>> \o sorted
  ELSE <<Head(sorted)>> \o insertSorted(Tail(sorted), s)

\* the semesters left in insertion order
sortSemestersNone(semesters) == semesters

\* semesters.sort((a, b) => a.semesterNumber - b.semesterNumber), a stable sort
RECURSIVE sortSemesters(_)
sortSemesters(semesters) ==
  IF Len(semesters) = 0 THEN <<>>
  ELSE insertSorted(sortSemesters(SubSeq(semesters, 1, Len(semesters) - 1)),
                    semesters[Len(semesters)])

\* semesters.filter(s => s.semesterNumber !== n)
RECURSIVE filterSemesters(_, _)
filterSemesters(semesters, n) ==
  IF Len(semesters) = 0 THEN <<>>
  ELSE IF Head(semesters).semesterNumber # n
       THEN <<Head(semesters)>> \o filterSemesters(Tail(semesters), n)
       ELSE filterSemesters(Tail(semesters), n)

\* overallCGPA and totalCredits recomputed from the semesters
recompute(semesters) ==
  [semesters   |-> semesters,
   overallCGPA |-> calculateCGPA(semesters),
   totalCredits |-> totalCredits(semesters)]

\* await cgpaData.save() followed by res.json(...); the catch block on a
\* validation failure
saveAndReply(coll, doc, message, semesterGPA) ==
  IF docValid(castDoc(doc))
  THEN [docs |-> save(coll, doc),
        res  |-> [status |-> 200, message |-> message, semesterGPA |-> semesterGPA,
                  overallCGPA |-> doc.overallCGPA]]
  ELSE [docs |-> coll, res |-> Reply(500, MsgServer)]

\* setSemester leaving the semester's totalCredits as it was
setSemesterStaleCredits(semesters, i, swp) ==
  [semesters EXCEPT ![i] = [@ EXCEPT !.subjects = swp,
                                     !.gpa = calculateGPA(swp)]]

\* the semester at index i with subjects, gpa and totalCredits replaced
setSemester(semesters, i, swp) ==
  [semesters EXCEPT ![i] = [@ EXCEPT !.subjects = swp,
                                     !.gpa = calculateGPA(swp),
                                     !.totalCredits = semesterCredits(swp)]]

\* the upsert of POST /calculate: replace at the index found, else push
upsert(semesters, semesterNum, swp) ==
  LET existingSemesterIndex == findIndex(semesters, semesterNum) IN
  IF existingSemesterIndex > 0
  THEN setSemester(semesters, existingSemesterIndex, swp)
  ELSE Append(semesters, [semesterNumber |-> semesterNum,
                          subjects       |-> swp,
                          gpa            |-> calculateGPA(swp),
                          totalCredits   |-> semesterCredits(swp)])

\* getHandler answering with a new document that it does not save
getHandlerNoSave(coll) == [docs |-> coll, res |-> Reply(200, MsgNone)]

\* router.get('/')
getHandler(coll) ==
  IF findOne(coll) = <<>>
  THEN [docs |-> save(coll, newDoc), res |-> Reply(200, MsgNone)]
  ELSE [docs |-> coll, res |-> Reply(200, MsgNone)]

\* calculateHandler getting or creating the document, and saving a created
\* one, before it validates the request
calculateHandlerCreateFirst(coll, semesterNumber, subjects) ==
  LET semesterNum == parseInt(semesterNumber)
      created     == IF findOne(coll) = <<>> THEN save(coll, newDoc) ELSE coll
  IN
  IF semesterNumber = <<>> \/ isNaN(semesterNum) \/ Leq(semesterNum, Zero)
  THEN [docs |-> created, res |-> Reply(400, MsgSemester)]
  ELSE IF Len(subjects) = 0
  THEN [docs |-> created, res |-> Reply(400, MsgSubjects)]
  ELSE IF validateSubjects(subjects) # MsgNone
  THEN [docs |-> created, res |-> Reply(400, validateSubjects(subjects))]
  ELSE LET cgpaData == created[1]
           swp      == subjectsWithPoints(subjects)
           doc      == recompute(sortSemesters(upsert(cgpaData.semesters, semesterNum, swp)))
       IN saveAndReply(created, doc, MsgSaved, calculateGPA(swp))

\* router.post('/calculate')
calculateHandler(coll, semesterNumber, subjects) ==
  LET semesterNum == parseInt(semesterNumber) IN
  IF semesterNumber = <<>> \/ isNaN(semesterNum) \/ Leq(semesterNum, Zero)
  THEN [docs |-> coll, res |-> Reply(400, MsgSemester)]
  ELSE IF Len(subjects) = 0
  THEN [docs |-> coll, res |-> Reply(400, MsgSubjects)]
  ELSE IF validateSubjects(subjects) # MsgNone
  THEN [docs |-> coll, res |-> Reply(400, validateSubjects(subjects))]
  ELSE LET cgpaData == IF findOne(coll) = <<>> THEN newDoc ELSE coll[1]
           swp      == subjectsWithPoints(subjects)
           doc      == recompute(sortSemesters(upsert(cgpaData.semesters, semesterNum, swp)))
       IN saveAndReply(coll, doc, MsgSaved, calculateGPA(swp))

\* router.put('/semester/:semesterNumber')
updateHandler(coll, semesterNumber, subjects) ==
  IF Len(subjects) = 0
  THEN [docs |-> coll, res |-> Reply(400, MsgSubjects)]
  ELSE IF findOne(coll) = <<>>
  THEN [docs |-> coll, res |-> Reply(404, MsgNoData)]
  ELSE LET cgpaData      == coll[1]
           semesterIndex == findIndex(cgpaData.semesters, parseInt(semesterNumber))
       IN IF semesterIndex = 0
          THEN [docs |-> coll, res |-> Reply(404, MsgNoSemester)]
          ELSE IF validateSubjects(subjects) # MsgNone
          THEN [docs |-> coll, res |-> Reply(400, validateSubjects(subjects))]
          ELSE LET swp == subjectsWithPoints(subjects)
                   doc == recompute(setSemester(cgpaData.semesters, semesterIndex, swp))
               IN saveAndReply(coll, doc, MsgUpdated, calculateGPA(swp))

\* router.delete('/semester/:semesterNumber')
deleteHandler(coll, semesterNumber) ==
  IF findOne(coll) = <<>>
  THEN [docs |-> coll, res |-> Reply(404, MsgNoData)]
  ELSE LET doc == recompute(filterSemesters(coll[1].semesters, parseInt(semesterNumber)))
       IN saveAndReply(coll, doc, MsgDeleted, undefined)

(***************************************************************************)
(* Requests                                                                *)
(***************************************************************************)
\* a subject of a request body; gradePoint is what the caller sent along
SubjectWith(name, credits, grade, gradePoint) ==
  [name |-> name, credits |-> credits, grade |-> grade, gradePoint |-> gradePoint]

Subject(name, credits, grade) == SubjectWith(name, credits, grade, undefined)

\* the subjects a request may carry: accepted ones, some with a gradePoint of
\* the caller's, and one for each way of being refused by the route or by the
\* schema
SubjectInputs ==
  { SubjectWith("Math", Num(1), "A", Num(3)),
    SubjectWith(" Lab ", Rat(3, 2), "U", Num(10)),
    Subject("Math", Num(1), "SC"),
    Subject("Math", Num(1), "Z"),
    Subject("Math", Zero, "A"),
    Subject("", Num(1), "A"),
    Subject("Math", Rat(1, 2), "A") }

SeqsUpTo(S, n) == UNION {[1..k -> S] : k \in 0..n}

\* the subjects of a request: none, one, or two
SubjectLists ==
  {<<>>} \cup {<<a>> : a \in SubjectInputs} \cup {<<a, b>> : a, b \in SubjectInputs}

\* the text of a semester number: the numbers 0..MaxSem, and texts that are
\* negative, fractional or empty
SemesterTexts ==
  { <<DigitChars[n + 1]>> : n \in 0..MaxSem }
    \cup { <<"-", "1">>, <<"1", ".", "5">>, <<>> }

NoCall == [kind |-> "none", v |-> <<>>]

NoResult == [done |-> FALSE]

\* the requests that may be in flight together
Callers == {"a", "b"}

\* a request that has not arrived
Idle == [pc |-> "idle"]

Init ==
  /\ docs = <<>>
  /\ res = [status |-> 0]
  /\ fnIn = NoCall
  /\ fnOut = NoResult
  /\ version = 0
  /\ calls = [c \in Callers |-> Idle]
  /\ origin = <<>>

\* the part of the response kept between requests
Response(r) == [status |-> r.status]

\* the collection and the response after a handler has run
Respond(r) == docs' = r.docs /\ res' = Response(r.res)

getRecord ==
  /\ Respond(getHandler(docs))
  /\ UNCHANGED <<fnIn, fnOut, version, calls, origin>>

upsertSemester ==
  \E n \in SemesterTexts, subjects \in SubjectLists :
    /\ Respond(calculateHandler(docs, n, subjects))
    /\ UNCHANGED <<fnIn, fnOut, version, calls, origin>>

updateSemester ==
  \E n \in SemesterTexts, subjects \in SubjectLists :
    /\ Respond(updateHandler(docs, n, subjects))
    /\ UNCHANGED <<fnIn, fnOut, version, calls, origin>>

deleteSemester ==
  \E n \in SemesterTexts :
    /\ Respond(deleteHandler(docs, n))
    /\ UNCHANGED <<fnIn, fnOut, version, calls, origin>>

Next == getRecord \/ upsertSemester \/ updateSemester \/ deleteSemester

Spec == Init /\ [][Next]_vars

(***************************************************************************)
(* The aggregation pipeline on its own: validation, mapping, calculateGPA  *)
(* and the credit sum of one request; calculateCGPA and the credit total   *)
(* of one list of semesters                                                *)
(***************************************************************************)
NameInputs == {"", "Math"}

CreditInputs == {undefined, Num(-1), Zero, Rat(1, 2), Num(1), Rat(3, 2), Num(2)}

GradeInputs == {"", "O", "A", "U", "SC", "Z"}

RequestSubjects ==
  {Subject(n, c, g) : n \in NameInputs, c \in CreditInputs, g \in GradeInputs}

RequestLists == SeqsUpTo(RequestSubjects, MaxLen)

\* a semester as the routes build it from accepted subjects
semesterOf(semesterNum, subjects) ==
  [semesterNumber |-> semesterNum,
   subjects       |-> subjectsWithPoints(subjects),
   gpa            |-> calculateGPA(subjectsWithPoints(subjects)),
   totalCredits   |-> semesterCredits(subjectsWithPoints(subjects))]

AcceptedLists ==
  {l \in SubjectLists : Len(l) > 0 /\ validateSubjects(l) = MsgNone
                        /\ \A i \in 1..Len(l) : subjectValid(withPoints(l[i]))}

SemesterInputs == {semesterOf(Num(1), l) : l \in AcceptedLists}

SemesterLists == SeqsUpTo(SemesterInputs, MaxLen)

\* the subjects that reach calculateGPA: accepted by the route and mapped
NormalizedSubjects ==
  {withPoints(s) : s \in {r \in RequestSubjects : subjectError(r) = MsgNone}}

NormalizedLists == SeqsUpTo(NormalizedSubjects, MaxLen)

\* the texts of the valid semester numbers
ValidNumbers == { <<DigitChars[n + 1]>> : n \in 1..MaxSem }

\* the subject lists that pass the route's validation
ValidLists == {l \in SubjectLists : Len(l) > 0 /\ validateSubjects(l) = MsgNone}

\* the collections that up to k served upserts of one subject each leave
RECURSIVE RecordsAfter(_)
RecordsAfter(k) ==
  IF k = 0 THEN {<<>>}
  ELSE RecordsAfter(k - 1) \cup
       { calculateHandler(coll, n, l).docs :
           coll \in RecordsAfter(k - 1), n \in ValidNumbers,
           l \in {v \in ValidLists : Len(v) = 1} }

RecordInputs == RecordsAfter(MaxSem)

\* two upserts of different semesters to make on one collection
UpsertPairs ==
  { [record |-> coll, n1 |-> n1, s1 |-> s1, n2 |-> n2, s2 |-> s2] :
      coll \in RecordInputs, n1 \in ValidNumbers, n2 \in ValidNumbers,
      s1 \in ValidLists, s2 \in ValidLists }

FnInit ==
  /\ docs = <<>>
  /\ res = [status |-> 0]
  /\ fnOut = NoResult
  /\ version = 0
  /\ calls = [c \in Callers |-> Idle]
  /\ origin = <<>>
  /\ \/ \E l \in RequestLists : fnIn = [kind |-> "subjects", v |-> l]
     \/ \E l \in NormalizedLists : fnIn = [kind |-> "normalized", v |-> l]
     \/ \E l \in SemesterLists : fnIn = [kind |-> "semesters", v |-> l]
     \/ \E p \in UpsertPairs : p.n1 # p.n2 /\ fnIn = [kind |-> "upserts", v |-> p]

\* lines 96-137 of POST /calculate on the subjects of one request
aggregateSemester ==
  /\ fnIn.kind = "subjects"
  /\ ~fnOut.done
  /\ fnOut' =
       IF Len(fnIn.v) = 0
       THEN [done |-> TRUE, error |-> MsgSubjects]
       ELSE IF validateSubjects(fnIn.v) # MsgNone
       THEN [done |-> TRUE, error |-> validateSubjects(fnIn.v)]
       ELSE [done     |-> TRUE,
             error    |-> MsgNone,
             subjects |-> subjectsWithPoints(fnIn.v),
             gpa      |-> calculateGPA(subjectsWithPoints(fnIn.v)),
             credits  |-> semesterCredits(subjectsWithPoints(fnIn.v))]
  /\ UNCHANGED <<docs, res, fnIn, version, calls, origin>>

\* lines 133-137 of POST /calculate on mapped subjects
semesterGPA ==
  /\ fnIn.kind = "normalized"
  /\ ~fnOut.done
  /\ fnOut' = [done    |-> TRUE,
               gpa     |-> calculateGPA(fnIn.v),
               credits |-> semesterCredits(fnIn.v)]
  /\ UNCHANGED <<docs, res, fnIn, version, calls, origin>>

\* lines 164-166 of POST /calculate on the semesters of one record
aggregateRecord ==
  /\ fnIn.kind = "semesters"
  /\ ~fnOut.done
  /\ fnOut' = [done         |-> TRUE,
               overallCGPA  |-> calculateCGPA(fnIn.v),
               totalCredits |-> totalCredits(fnIn.v)]
  /\ UNCHANGED <<docs, res, fnIn, version, calls, origin>>

\* POST /calculate twice on one collection, in each of the two orders
upsertBothOrders ==
  /\ fnIn.kind = "upserts"
  /\ ~fnOut.done
  /\ fnOut' =
       LET p == fnIn.v IN
       [done   |-> TRUE,
        first  |-> calculateHandler(calculateHandler(p.record, p.n1, p.s1).docs,
                                    p.n2, p.s2),
        second |-> calculateHandler(calculateHandler(p.record, p.n2, p.s2).docs,
                                    p.n1, p.s1)]
  /\ UNCHANGED <<docs, res, fnIn, version, calls, origin>>

FnNext == aggregateSemester \/ semesterGPA \/ aggregateRecord \/ upsertBothOrders

FnSpec == FnInit /\ [][FnNext]_vars

(***************************************************************************)
(* Two mutation requests of one user in flight together.  A handler runs   *)
(* without interruption up to its await of findOne and from there up to    *)
(* its await of save; findOne and the write of save are each one operation *)
(* of the database.  The schema leaves the versionKey (__v) on: a save     *)
(* that writes an array, or an element of one, filters on the __v that     *)
(* findOne read and increments it, and fails when no document matches; the *)
(* save of a new document is an insert, which the unique index on user     *)
(* refuses when the user has a document.  The sequential routes above read *)
(* and write the same __v within one step and leave it out.                *)
(***************************************************************************)
\* the subjects of a request in flight: none, or one countable subject that
\* is stored, refused by the route (grade Z) or refused by the schema
\* (credits 1/2)
ConcLists ==
  {<<>>} \cup {<<a>> : a \in {b \in SubjectInputs :
                                b.name # "" /\ b.credits # Zero /\ b.grade # "SC"}}

ConcRequests ==
  { [op |-> "calculate", n |-> n, subjects |-> l] : n \in ValidNumbers, l \in ConcLists }
    \cup { [op |-> "update", n |-> n, subjects |-> l] : n \in ValidNumbers, l \in ConcLists }
    \cup { [op |-> "delete", n |-> n, subjects |-> <<>>] : n \in ValidNumbers }

\* the route of a request run on the collection that its findOne reads
handle(request, coll) ==
  CASE request.op = "calculate" -> calculateHandler(coll, request.n, request.subjects)
    [] request.op = "update" -> updateHandler(coll, request.n, request.subjects)
    [] request.op = "delete" -> deleteHandler(coll, request.n)

\* whether the route answers before it reaches findOne: POST on every failed
\* validation, PUT on empty subjects
repliesBeforeFindOne(request) ==
  CASE request.op = "calculate" -> handle(request, <<>>).res.status = 400
    [] request.op = "update" -> Len(request.subjects) = 0
    [] request.op = "delete" -> FALSE

\* the filter of a versioned save taken to match whatever __v is stored
versionMatchesAny(read, stored) == TRUE

\* the filter { _id, __v } of a versioned save against the stored document
versionMatches(read, stored) == read = stored

ConcInit ==
  /\ origin \in RecordInputs
  /\ docs = origin
  /\ version = 0
  /\ calls = [c \in Callers |-> Idle]
  /\ res = [status |-> 0]
  /\ fnIn = NoCall
  /\ fnOut = NoResult

\* the request of a caller as answered with status; the document it had
\* found is dropped
Done(call, status) == [call EXCEPT !.pc = "done", !.status = status, !.found = <<>>]

\* a request arrives and runs up to await CGPA.findOne, which reads the
\* user's document and its __v
awaitFindOne(c) ==
  /\ calls[c].pc = "idle"
  /\ \E request \in ConcRequests :
       LET call == [pc |-> "found", request |-> request, found |-> docs,
                    version |-> version, status |-> 0]
       IN calls' = [calls EXCEPT ![c] =
                      IF repliesBeforeFindOne(request)
                      THEN Done([call EXCEPT !.version = 0], 400)
                      ELSE call]
  /\ UNCHANGED <<docs, version, origin, res, fnIn, fnOut>>

\* the handler runs on from the document found up to await cgpaData.save(),
\* the save reaches the database, and the response is sent
awaitSave(c) ==
  /\ calls[c].pc = "found"
  /\ LET call == calls[c]
         r    == handle(call.request, call.found)
     IN IF r.res.status # 200
        THEN /\ calls' = [calls EXCEPT ![c] = Done(call, r.res.status)]
             /\ UNCHANGED <<docs, version>>
        ELSE IF call.found = <<>>
        THEN \* insert of the new document
             IF docs = <<>>
             THEN /\ docs' = r.docs
                  /\ version' = 0
                  /\ calls' = [calls EXCEPT ![c] = Done(call, 200)]
             ELSE /\ calls' = [calls EXCEPT ![c] = Done(call, 500)]
                  /\ UNCHANGED <<docs, version>>
        ELSE \* update; semesters assigned an equal array (DELETE of a number
             \* that is not there) may or may not count as modified
             \E modified \in (IF r.docs = call.found THEN BOOLEAN ELSE {TRUE}) :
               IF ~modified
               THEN /\ calls' = [calls EXCEPT ![c] = Done(call, 200)]
                    /\ UNCHANGED <<docs, version>>
               ELSE IF versionMatches(call.version, version)
               THEN /\ docs' = r.docs
                    /\ version' = version + 1
                    /\ calls' = [calls EXCEPT ![c] = Done(call, 200)]
               ELSE /\ calls' = [calls EXCEPT ![c] = Done(call, 500)]
                    /\ UNCHANGED <<docs, version>>
  /\ UNCHANGED <<origin, res, fnIn, fnOut>>

ConcNext == \E c \in Callers : awaitFindOne(c) \/ awaitSave(c)

ConcSpec == ConcInit /\ [][ConcNext]_vars

(***************************************************************************)
(* Properties                                                              *)
(***************************************************************************)
\* the sum of f over the finite set S of indices
RECURSIVE SumOver(_, _)
SumOver(S, f) ==
  IF S = {} THEN Zero
  ELSE LET x == CHOOSE y \in S : TRUE IN Add(f[x], SumOver(S \ {x}, f))

\* the positions of the subjects whose grade is not SC
Countable(subjects) == {i \in 1..Len(subjects) : subjects[i].grade # "SC"}

CountableCredits(subjects) ==
  SumOver(Countable(subjects), [i \in 1..Len(subjects) |-> subjects[i].credits])

CountablePoints(subjects) ==
  SumOver(Countable(subjects),
          [i \in 1..Len(subjects) |-> Mul(subjects[i].credits, subjects[i].gradePoint)])

\* the subjects with the SC ones left out
RECURSIVE WithoutSC(_)
WithoutSC(subjects) ==
  IF Len(subjects) = 0 THEN <<>>
  ELSE IF Head(subjects).grade = "SC" THEN WithoutSC(Tail(subjects))
  ELSE <<Head(subjects)>> \o WithoutSC(Tail(subjects))

\* C1: for every list of normalized subjects the GPA times the credits C of
\* the non-SC subjects is the sum of credits * gradePoint over those subjects,
\* the GPA is 0 when C is 0 (the empty list included), the semester's credit
\* total is C, and leaving the SC subjects out changes neither.
C1_SemesterGPA ==
  (fnIn.kind = "normalized" /\ fnOut.done) =>
    LET C == CountableCredits(fnIn.v) IN
    /\ Mul(fnOut.gpa, C) = CountablePoints(fnIn.v)
    /\ (C = Zero => fnOut.gpa = Zero)
    /\ fnOut.credits = C
    /\ fnOut.gpa = calculateGPA(WithoutSC(fnIn.v))
    /\ fnOut.credits = semesterCredits(WithoutSC(fnIn.v))

\* a GPA computed from an SC subject next to a countable one of other weight
C1_Witness ==
  /\ fnIn.kind = "normalized" /\ fnOut.done
  /\ Len(fnIn.v) = MaxLen
  /\ \E i, j \in 1..Len(fnIn.v) :
       /\ fnIn.v[i].grade = "SC"
       /\ fnIn.v[j].grade # "SC" /\ fnIn.v[j].credits = Num(2)
  /\ fnOut.gpa = Num(10) /\ fnOut.credits = Num(2)

\* the positions of the semesters that calculateCGPA counts
Contributing(semesters) ==
  {i \in 1..Len(semesters) :
     Less(Zero, semesters[i].gpa) /\ Less(Zero, semesters[i].totalCredits)}

\* C2: for every list of semesters calculateCGPA is the sum of gpa *
\* totalCredits over the sum of totalCredits, both taken over exactly the
\* semesters with gpa > 0 and totalCredits > 0, and 0 when none qualifies;
\* the record's totalCredits is the sum over all the semesters.
C2_OverallCGPA ==
  (fnIn.kind = "semesters" /\ fnOut.done) =>
    LET credits  == [i \in 1..Len(fnIn.v) |-> fnIn.v[i].totalCredits]
        weighted == [i \in 1..Len(fnIn.v) |->
                       Mul(fnIn.v[i].gpa, fnIn.v[i].totalCredits)]
        W        == SumOver(Contributing(fnIn.v), credits)
    IN /\ Mul(fnOut.overallCGPA, W) = SumOver(Contributing(fnIn.v), weighted)
       /\ (Contributing(fnIn.v) = {} => fnOut.overallCGPA = Zero)
       /\ fnOut.totalCredits = SumOver(1..Len(fnIn.v), credits)

\* a semester that counts next to one that has credits but gpa 0
C2_Witness ==
  /\ fnIn.kind = "semesters" /\ fnOut.done
  /\ \E i, j \in 1..Len(fnIn.v) :
       /\ i \in Contributing(fnIn.v)
       /\ j \notin Contributing(fnIn.v) /\ Less(Zero, fnIn.v[j].totalCredits)
  /\ fnOut.overallCGPA = Num(8)
  /\ fnOut.totalCredits = Rat(5, 2)

\* the semesters of the user's record, none when there is no record
Semesters == IF docs = <<>> THEN <<>> ELSE docs[1].semesters

\* credits, and credits * gradePoint, summed over the countable subjects of
\* every semester
RECURSIVE AllCredits(_)
AllCredits(semesters) ==
  IF Len(semesters) = 0 THEN Zero
  ELSE Add(CountableCredits(Head(semesters).subjects), AllCredits(Tail(semesters)))

RECURSIVE AllPoints(_)
AllPoints(semesters) ==
  IF Len(semesters) = 0 THEN Zero
  ELSE Add(CountablePoints(Head(semesters).subjects), AllPoints(Tail(semesters)))

\* C3: the record's overallCGPA is the credit-weighted average grade point
\* over every countable subject of every semester: overallCGPA * T is the sum
\* of credits * gradePoint, T the sum of those credits, and 0 when T is 0.
C3_OverallIsSubjectAverage ==
  docs # <<>> =>
    /\ Mul(docs[1].overallCGPA, AllCredits(Semesters)) = AllPoints(Semesters)
    /\ (AllCredits(Semesters) = Zero => docs[1].overallCGPA = Zero)

C5_Sorted ==
  \A i, j \in 1..Len(Semesters) :
    i < j => Less(Semesters[i].semesterNumber, Semesters[j].semesterNumber)

\* a record holding every semester after a request that was served
C5_Witness ==
  /\ res.status = 200
  /\ Len(Semesters) = MaxSem
  /\ Semesters[1].semesterNumber = Num(1)

\* the number a text denotes: sign, digits and an optional fraction;
\* undefined when the text is no such number
TextNumber(text) ==
  LET neg   == Len(text) > 0 /\ text[1] = "-"
      start == IF neg THEN 2 ELSE 1
      whole == parseDigits(text, start, <<0, 0>>)
      dot   == start + whole[2]
      frac  == IF dot <= Len(text) /\ text[dot] = "."
               THEN parseDigits(text, dot + 1, <<0, 0>>) ELSE <<0, 0>>
      used  == whole[2] + (IF dot <= Len(text) /\ text[dot] = "." THEN 1 + frac[2] ELSE 0)
      value == Add(Num(whole[1]), Rat(frac[1], 10 ^ frac[2]))
  IN IF whole[2] = 0 \/ start + used # Len(text) + 1 THEN undefined
     ELSE IF neg THEN Mul(Num(-1), value) ELSE value

\* the position of the semester numbered n, 0 when there is none
PositionOf(semesters, n) ==
  IF \E i \in 1..Len(semesters) : semesters[i].semesterNumber = n
  THEN CHOOSE i \in 1..Len(semesters) : semesters[i].semesterNumber = n
  ELSE 0

\* C6: no two semesters of a persisted record share a semesterNumber; an
\* upsert with a semesterNumber already present replaces that semester's
\* subjects, gpa and totalCredits and leaves the number of semesters
\* unchanged, and with a semesterNumber not present adds exactly one semester.
C6_UpsertReplacesOrAdds ==
  /\ \A i, j \in 1..Len(Semesters) :
       i # j => Semesters[i].semesterNumber # Semesters[j].semesterNumber
  /\ \A n \in SemesterTexts, subjects \in SubjectLists :
       LET r == calculateHandler(docs, n, subjects) IN
       r.res.status = 200 =>
         LET after == r.docs[1].semesters
             at    == PositionOf(after, TextNumber(n))
         IN IF PositionOf(Semesters, TextNumber(n)) > 0
            THEN /\ Len(after) = Len(Semesters)
                 /\ at > 0
                 /\ after[at].gpa = r.res.semesterGPA
                 /\ Len(after[at].subjects) = Len(subjects)
            ELSE Len(after) = Len(Semesters) + 1

\* C7: a request that upsertSemester or updateSemester rejects (status 400)
\* leaves the user's persisted record exactly as it was, and creates none.
C7_RejectedLeavesRecord == [][res'.status = 400 => docs' = docs]_vars

\* a rejection answered while the record holds semesters
C7_Witness == res.status = 400 /\ Len(Semesters) = MaxSem

\* the subjects before position i all pass the validation
PassUpTo(subjects, i) == \A j \in 1..(i - 1) : subjectError(subjects[j]) = MsgNone

\* a subject with a name and a grade that is no key of the table
UnknownGrade(subject) ==
  subject.name # "" /\ subject.grade # "" /\ subject.grade \notin DOMAIN GRADE_POINTS

C9_StoredCredits ==
  \A i \in 1..Len(Semesters) :
    \A j \in 1..Len(Semesters[i].subjects) :
      LET subject == Semesters[i].subjects[j] IN
      IF subject.grade = "SC" THEN subject.credits = Zero
      ELSE IsInteger(subject.credits) /\ Leq(Num(1), subject.credits)

\* a subject with grade U, a name and credits of at least 1
Failed(subject) ==
  /\ subject.grade = "U" /\ subject.name # ""
  /\ subject.credits # undefined /\ Leq(Num(1), subject.credits)

\* the sequence without its element at position i
Without(seq, i) == SubSeq(seq, 1, i - 1) \o SubSeq(seq, i + 1, Len(seq))

\* C10: a subject with grade U, a name and credits >= 1 is accepted, is mapped
\* to gradePoint 0 with its credits kept, and its credits count in the GPA
\* denominator and in the semester's credits, so the GPA is lower than
\* without it, while the same subject graded SC leaves the GPA as it was.
C10_FailedIsCountable ==
  (fnIn.kind = "subjects" /\ fnOut.done) =>
    \A i \in 1..Len(fnIn.v) :
      (Failed(fnIn.v[i])
         /\ \A j \in 1..Len(fnIn.v) : j # i => subjectError(fnIn.v[j]) = MsgNone) =>
        /\ fnOut.error = MsgNone
        /\ fnOut.subjects[i].gradePoint = Zero
        /\ fnOut.subjects[i].credits = fnIn.v[i].credits
        /\ fnOut.credits =
             Add(fnIn.v[i].credits, CountableCredits(Without(fnOut.subjects, i)))
        /\ Mul(fnOut.gpa, fnOut.credits) = CountablePoints(Without(fnOut.subjects, i))
        /\ Leq(fnOut.gpa, calculateGPA(Without(fnOut.subjects, i)))
        /\ (Less(Zero, calculateGPA(Without(fnOut.subjects, i))) =>
              Less(fnOut.gpa, calculateGPA(Without(fnOut.subjects, i))))
        /\ calculateGPA([fnOut.subjects EXCEPT ![i] =
                           withPoints([fnIn.v[i] EXCEPT !.grade = "SC"])])
             = calculateGPA(Without(fnOut.subjects, i))

\* a failed subject of 2 credits halving the GPA of an O of 2 credits
C10_Witness ==
  /\ fnIn.kind = "subjects" /\ fnOut.done /\ fnOut.error = MsgNone
  /\ \E i, j \in 1..Len(fnIn.v) :
       /\ Failed(fnIn.v[i]) /\ fnIn.v[i].credits = Num(2)
       /\ fnIn.v[j].grade = "O" /\ fnIn.v[j].credits = Num(2)
  /\ fnOut.gpa = Num(5)
  /\ fnOut.credits = Num(4)

\* the subjects as they are to be stored: the credits of an SC subject 0, the
\* gradePoint the table's
TablePoints(subjects) ==
  [i \in 1..Len(subjects) |->
     [credits    |-> IF subjects[i].grade = "SC" THEN Zero ELSE subjects[i].credits,
      grade      |-> subjects[i].grade,
      gradePoint |-> Num(GRADE_POINTS[subjects[i].grade])]]

ForeignPoint ==
  {s \in SubjectInputs : /\ s.gradePoint # undefined
                         /\ InGradePoints(s.grade)
                         /\ s.gradePoint # Num(GRADE_POINTS[s.grade])}

C12_DeleteAbsentIsNoOp ==
  docs # <<>> =>
    \A n \in SemesterTexts :
      /\ PositionOf(Semesters, TextNumber(n)) = 0 =>
           /\ deleteHandler(docs, n).res.status = 200
           /\ deleteHandler(docs, n).docs = docs
      /\ deleteHandler(deleteHandler(docs, n).docs, n).res.status = 200
      /\ deleteHandler(deleteHandler(docs, n).docs, n).docs = deleteHandler(docs, n).docs

\* C13: an update of a semesterNumber that no semester of the record has
\* fails as not found and leaves the record as it was; an update of one that
\* is there leaves the record, and answers the status, the semesterGPA, the
\* overallCGPA and the validation failure, that the upsert of the same
\* semesterNumber and subjects does.
C13_UpdateIsUpsertOfExisting ==
  \A n \in SemesterTexts, subjects \in SubjectLists :
    LET u == updateHandler(docs, n, subjects)
        c == calculateHandler(docs, n, subjects)
    IN IF PositionOf(Semesters, TextNumber(n)) = 0
       THEN u.res.status = 404 /\ u.docs = docs
       ELSE /\ u.docs = c.docs
            /\ u.res.status = c.res.status
            /\ u.res.semesterGPA = c.res.semesterGPA
            /\ u.res.overallCGPA = c.res.overallCGPA
            /\ (c.res.status = 400 => u.res.message = c.res.message)

\* C14: at most one record exists; getRecord without a record is served and
\* leaves a persisted record with no semesters, overallCGPA 0 and
\* totalCredits 0; getRecord with a record is served and leaves it as it is;
\* and no step of any of the four operations leaves a user who has a record
\* without one.
C14_GetCreatesAndKeeps ==
  [][/\ Len(docs) <= 1
     /\ getHandler(docs).res.status = 200
     /\ docs = <<>> =>
          /\ Len(getHandler(docs).docs) = 1
          /\ getHandler(docs).docs[1].semesters = <<>>
          /\ getHandler(docs).docs[1].overallCGPA = Zero
          /\ getHandler(docs).docs[1].totalCredits = Zero
     /\ docs # <<>> =>
          /\ getHandler(docs).docs = docs
          /\ Len(docs') = 1]_vars

\* a persisted record without a semester: the one getRecord creates, and the
\* one a record becomes when its last semester is deleted
C14_Witness ==
  /\ res.status = 200
  /\ docs # <<>>
  /\ Semesters = <<>>
  /\ docs[1].overallCGPA = Zero /\ docs[1].totalCredits = Zero

\* a positive whole number
PositiveInteger(x) == x # undefined /\ x # NaN /\ IsInteger(x) /\ Less(Zero, x)

\* C15: an upsert whose semesterNumber is anything but a positive integer is
\* rejected with the invalid-semester-number reason; a served upsert stores
\* its semester under the number the caller supplied; and every stored
\* semester has a positive-integer semesterNumber.
C15_SemesterNumberChecked ==
  /\ \A i \in 1..Len(Semesters) : PositiveInteger(Semesters[i].semesterNumber)
  /\ \A n \in SemesterTexts, subjects \in SubjectLists :
       LET r == calculateHandler(docs, n, subjects) IN
       /\ ~PositiveInteger(TextNumber(n)) =>
            r.res.status = 400 /\ r.res.message = MsgSemester
       /\ r.res.status = 200 =>
            PositionOf(r.docs[1].semesters, TextNumber(n)) > 0

\* x lies in [0, 10]
InScale(x) == Leq(Zero, x) /\ Leq(x, Num(10))

C18_UpsertsCommute ==
  (fnIn.kind = "upserts" /\ fnOut.done) => fnOut.first.docs = fnOut.second.docs

\* the later semester replaced first and the earlier one added after it, both
\* served
C18_Witness ==
  /\ fnIn.kind = "upserts" /\ fnOut.done
  /\ Len(fnIn.v.record) = 1
  /\ PositionOf(fnIn.v.record[1].semesters, parseInt(fnIn.v.n1)) > 0
  /\ PositionOf(fnIn.v.record[1].semesters, parseInt(fnIn.v.n2)) = 0
  /\ Less(parseInt(fnIn.v.n2), parseInt(fnIn.v.n1))
  /\ fnOut.first.res.status = 200 /\ fnOut.second.res.status = 200
  /\ Len(fnOut.first.docs[1].semesters) = Len(fnIn.v.record[1].semesters) + 1
  /\ fnOut.first.docs[1].semesters[1].semesterNumber = parseInt(fnIn.v.n2)
  /\ fnOut.first.docs[1].overallCGPA # fnIn.v.record[1].overallCGPA

\* the requests that were answered 200
Served == {c \in Callers : calls[c].pc = "done" /\ calls[c].status = 200}

\* the orders in which the requests of the set S can be made one at a time
Orders(S) == {o \in SeqsUpTo(S, Cardinality(S)) :
                Len(o) = Cardinality(S) /\ \A c \in S : \E i \in 1..Len(o) : o[i] = c}

\* the requests of order made one after the other from the collection coll:
\* the collection they leave, and whether each was served
RECURSIVE SerialFrom(_, _)
SerialFrom(coll, order) ==
  IF Len(order) = 0 THEN [docs |-> coll, ok |-> TRUE]
  ELSE LET r    == handle(calls[Head(order)].request, coll)
           rest == SerialFrom(r.docs, Tail(order))
       IN [docs |-> rest.docs, ok |-> r.res.status = 200 /\ rest.ok]

====
